---- MODULE Spec2Model ----
(***************************************************************************)
(* Model of the PCA9685 register-access driver (src/src/pca9685lib.c).     *)
(*                                                                         *)
(* The device is a byte-addressed register file reached through a bus      *)
(* transport (i2cRead / i2cWrite).  The transport persists successful      *)
(* writes and may fail on any single call; a failed call changes nothing.  *)
(* Every driver function is a pure operator from the world before the call *)
(* (device registers, transport log, memory reachable through the pointer  *)
(* arguments) to the world after it, and one action applies it.            *)
(*                                                                         *)
(* pca9685lib.h and us-i2c.h are not part of the sources: the register map,*)
(* the numeric limits and the bitfield layout are taken from the           *)
(* specification and the PCA9685 register map it refers to.                *)
(***************************************************************************)
EXTENDS Integers, Sequences, FiniteSets, TLC

VARIABLES regs, mem, stores, busLog, ret, call, nCalls

vars == <<regs, mem, stores, busLog, ret, call, nCalls>>

(***************************************************************************)
(* Constants of pca9685lib.h / us-i2c.h                                    *)
(***************************************************************************)
PCA9685LIB_SUCCESS == "PCA9685LIB_SUCCESS"
PCA9685LIB_ERROR == "PCA9685LIB_ERROR"
US_I2C_SUCCESS == "US_I2C_SUCCESS"
US_I2C_ERROR == "US_I2C_ERROR"
NULL == "NULL"

PCA9685_MODE1_REG_ADDR == 0
PCA9685_MODE2_REG_ADDR == 1
PCA9685_LED0_ON_L_REG_ADDR == 6
PCA9685_LED0_ON_H_REG_ADDR == 7
PCA9685_LED0_OFF_L_REG_ADDR == 8
PCA9685_LED0_OFF_H_REG_ADDR == 9
PCA9685_LED15_OFF_H_REG_ADDR == 69
PCA9685_ALL_LED_ON_L_REG_ADDR == 250
PCA9685_ALL_LED_ON_H_REG_ADDR == 251
PCA9685_ALL_LED_OFF_L_REG_ADDR == 252
PCA9685_ALL_LED_OFF_H_REG_ADDR == 253
PCA9685_PRE_SCALE_REG_ADDR == 254
PCA9685_TEST_MODE_REG_ADDR == 255

PCA9685_MAX_PWM_CHANNELS == 15
PCA9685_MAX_PWM_VALUE == 4095
PCA9685_MIN_PRESCALER == 3

\* Bitfield layout of PCA9685Mode1Reg_u / PCA9685Mode2Reg_u: bit position and
\* width of each named field inside regValue.
MODE1_SLEEP_SHIFT == 4
MODE1_SLEEP_WIDTH == 1
MODE1_RESTART_SHIFT == 7
MODE1_RESTART_WIDTH == 1
MODE2_OUTNE_SHIFT == 0
MODE2_OUTNE_WIDTH == 2
MODE2_INVRT_SHIFT == 4
MODE2_INVRT_WIDTH == 1

(***************************************************************************)
(* Bounds and input sets                                                   *)
(***************************************************************************)
\* Number of driver calls the caller issues in one run.
MaxOps == 2

Byte == 0..255
RegAddr == 0..255

\* Arguments the caller draws from.  Register addresses on both sides of each
\* edge of the forbidden range; channels on both sides of the last channel;
\* PWM pairs inside and outside the 12-bit range.
Confs == {NULL, "controllerConf"}
RegInputs == {0, 69, 70, 249, 250, 254, 255}
ByteInputs == {90, 255}
PrescaleInputs == {0, 2, 3, 4, 255}
InvrtInputs == {0, 1, 2}
ValidChannels == {0, 15}
InvalidChannels == {16, 255}
ValidPwm == {<<0, 2048>>, <<4095, 0>>, <<2748, 1365>>}
InvalidPwm == {<<4096, 0>>, <<0, 4096>>, <<65535, 65535>>}

\* Which transport call of a driver call fails: 0 for none, k for the k-th.
\* A driver call makes at most four.
FailPoints(n) == 0..n

\* Memory the caller owns and hands over by pointer, and the callee's locals.
CallerVars == {"onValue", "offValue", "data"}
LocalVars == {"tmpValue_l", "tmpValue_h", "mode1RegRead", "mode2RegRead"}

(***************************************************************************)
(* Integer helpers: C conversions and bitfield stores                      *)
(***************************************************************************)
Pow2(n) == 2 ^ n

\* (uint8_t) x
U8(x) == x % 256

\* (uint16_t) x
U16(x) == x % 65536

\* x >> n on an unsigned value
Shr(x, n) == x \div Pow2(n)

\* x << n
Shl(x, n) == x * Pow2(n)

\* a | b on non-negative integers
RECURSIVE BitOr(_, _)
BitOr(a, b) ==
    IF a = 0 THEN b
    ELSE IF b = 0 THEN a
    ELSE (IF (a % 2 = 1) \/ (b % 2 = 1) THEN 1 ELSE 0) + 2 * BitOr(a \div 2, b \div 2)

\* regValue after `bitfield.<field> = v` for a field of `width` bits at `shift`:
\* the value is truncated to the field, the other bits are kept.
SetBitfield(regValue, shift, width, v) ==
    LET low == regValue % Pow2(shift)
        high == regValue \div Pow2(shift + width)
    IN  high * Pow2(shift + width) + (v % Pow2(width)) * Pow2(shift) + low

(***************************************************************************)
(* The world a driver call runs in                                         *)
(***************************************************************************)
\* The caller's memory plus the callee's locals, all locals not yet initialised
\* by the callee holding 0.
World(r, m) ==
    [regs |-> r,
     log |-> <<>>,
     mem |-> [a \in CallerVars \cup LocalVars |-> IF a \in CallerVars THEN m[a] ELSE 0],
     stores |-> {},
     ret |-> PCA9685LIB_SUCCESS,
     rc |-> US_I2C_SUCCESS]

\* `return r;`
Return(w, r) == [w EXCEPT !.ret = r]

\* `*ptr = v;`
Store(w, ptr, v) == [w EXCEPT !.mem[ptr] = v, !.stores = @ \cup {ptr}]

(***************************************************************************)
(* Bus transport (us-i2c): one addressed single-byte transfer.  The        *)
(* fail-th transfer of the running driver call fails (0: none does).       *)
(***************************************************************************)
i2cWrite(w, reg, data, fail) ==
    LET ok == (Len(w.log) + 1) # fail
        entry == [op |-> "write", reg |-> reg, data |-> data, ok |-> ok]
    IN  [w EXCEPT !.log = Append(@, entry),
                  !.regs = IF ok THEN [@ EXCEPT ![reg] = data] ELSE @,
                  !.rc = IF ok THEN US_I2C_SUCCESS ELSE US_I2C_ERROR]

i2cRead(w, reg, data, fail) ==
    LET ok == (Len(w.log) + 1) # fail
        entry == [op |-> "read", reg |-> reg, data |-> w.regs[reg], ok |-> ok]
        w1 == [w EXCEPT !.log = Append(@, entry),
                        !.rc = IF ok THEN US_I2C_SUCCESS ELSE US_I2C_ERROR]
    IN  IF ok THEN Store(w1, data, w.regs[reg]) ELSE w1

(***************************************************************************)
(* Register access layer                                                   *)
(***************************************************************************)
\* Variant: the test-mode address is not part of the test.
ForbiddenReg_NoTestMode(reg) ==
    reg > PCA9685_LED15_OFF_H_REG_ADDR /\ reg < PCA9685_ALL_LED_ON_L_REG_ADDR

\* The forbidden-register test shared by PCA9685WriteReg and PCA9685ReadReg.
ForbiddenReg(reg) ==
    \/ (reg > PCA9685_LED15_OFF_H_REG_ADDR /\ reg < PCA9685_ALL_LED_ON_L_REG_ADDR)
    \/ reg = PCA9685_TEST_MODE_REG_ADDR

PCA9685WriteReg(w, controllerConf, reg, data, fail) ==
    IF controllerConf = NULL
    THEN Return(w, PCA9685LIB_ERROR)
    ELSE IF ForbiddenReg(reg)
    THEN Return(w, PCA9685LIB_ERROR)
    ELSE LET w1 == i2cWrite(w, reg, data, fail)
         IN  IF w1.rc # US_I2C_SUCCESS
             THEN Return(w1, PCA9685LIB_ERROR)
             ELSE Return(w1, PCA9685LIB_SUCCESS)

PCA9685ReadReg(w, controllerConf, reg, data, fail) ==
    IF controllerConf = NULL \/ data = NULL
    THEN Return(w, PCA9685LIB_ERROR)
    ELSE IF ForbiddenReg(reg)
    THEN Return(w, PCA9685LIB_ERROR)
    ELSE LET w1 == i2cRead(w, reg, data, fail)
         IN  IF w1.rc # US_I2C_SUCCESS
             THEN Return(w1, PCA9685LIB_ERROR)
             ELSE Return(w1, PCA9685LIB_SUCCESS)

(***************************************************************************)
(* Device operation layer: mode registers and prescaler                    *)
(***************************************************************************)
PCA9685_GetMode1Reg(w, controllerConf, modeReg, fail) ==
    IF controllerConf = NULL \/ modeReg = NULL
    THEN Return(w, PCA9685LIB_ERROR)
    ELSE LET w1 == PCA9685ReadReg(w, controllerConf, PCA9685_MODE1_REG_ADDR, modeReg, fail)
         IN  IF w1.ret # PCA9685LIB_SUCCESS
             THEN Return(w1, PCA9685LIB_ERROR)
             ELSE Return(w1, PCA9685LIB_SUCCESS)

PCA9685_SetMode1Reg(w, controllerConf, modeReg, fail) ==
    IF controllerConf = NULL
    THEN Return(w, PCA9685LIB_ERROR)
    ELSE LET w1 == PCA9685WriteReg(w, controllerConf, PCA9685_MODE1_REG_ADDR, modeReg, fail)
         IN  IF w1.ret # PCA9685LIB_SUCCESS
             THEN Return(w1, PCA9685LIB_ERROR)
             ELSE Return(w1, PCA9685LIB_SUCCESS)

PCA9685_GetMode2Reg(w, controllerConf, modeReg, fail) ==
    IF controllerConf = NULL \/ modeReg = NULL
    THEN Return(w, PCA9685LIB_ERROR)
    ELSE LET w1 == PCA9685ReadReg(w, controllerConf, PCA9685_MODE2_REG_ADDR, modeReg, fail)
         IN  IF w1.ret # PCA9685LIB_SUCCESS
             THEN Return(w1, PCA9685LIB_ERROR)
             ELSE Return(w1, PCA9685LIB_SUCCESS)

PCA9685_SetMode2Reg(w, controllerConf, modeReg, fail) ==
    IF controllerConf = NULL
    THEN Return(w, PCA9685LIB_ERROR)
    ELSE LET w1 == PCA9685WriteReg(w, controllerConf, PCA9685_MODE2_REG_ADDR, U8(modeReg), fail)
         IN  IF w1.ret # PCA9685LIB_SUCCESS
             THEN Return(w1, PCA9685LIB_ERROR)
             ELSE Return(w1, PCA9685LIB_SUCCESS)

PCA9685_GetPrescaler(w, controllerConf, prescale, fail) ==
    IF controllerConf = NULL \/ prescale = NULL
    THEN Return(w, PCA9685LIB_ERROR)
    ELSE LET w1 == PCA9685ReadReg(w, controllerConf, PCA9685_PRE_SCALE_REG_ADDR, prescale, fail)
         IN  IF w1.ret # PCA9685LIB_SUCCESS
             THEN Return(w1, PCA9685LIB_ERROR)
             ELSE Return(w1, PCA9685LIB_SUCCESS)

\* Variant: the comparison is inverted, so low values pass unchanged.
ClampPrescale_Inverted(prescale) ==
    IF prescale > PCA9685_MIN_PRESCALER THEN PCA9685_MIN_PRESCALER ELSE prescale

\* `if (prescale < PCA9685_MIN_PRESCALER) prescale = PCA9685_MIN_PRESCALER;`
ClampPrescale(prescale) ==
    IF prescale < PCA9685_MIN_PRESCALER THEN PCA9685_MIN_PRESCALER ELSE prescale

PCA9685_SetPrescaler(w, controllerConf, prescale, fail) ==
    IF controllerConf = NULL
    THEN Return(w, PCA9685LIB_ERROR)
    ELSE LET w1 == PCA9685WriteReg(w, controllerConf, PCA9685_PRE_SCALE_REG_ADDR,
                                   ClampPrescale(prescale), fail)
         IN  IF w1.ret # PCA9685LIB_SUCCESS
             THEN Return(w1, PCA9685LIB_ERROR)
             ELSE Return(w1, PCA9685LIB_SUCCESS)

(***************************************************************************)
(* Device operation layer: PWM values                                      *)
(***************************************************************************)
\* Variant: the channel index is compared with the largest uint8_t value.
ChannelOutOfRange_Unchecked(channel) == channel > 255

\* `channel > PCA9685_MAX_PWM_CHANNELS`
ChannelOutOfRange(channel) == channel > PCA9685_MAX_PWM_CHANNELS

\* Variant: only the on value is range-checked.
PwmOutOfRange_OnOnly(onValue, offValue) == onValue > PCA9685_MAX_PWM_VALUE

\* `onValue > PCA9685_MAX_PWM_VALUE || offValue > PCA9685_MAX_PWM_VALUE`
PwmOutOfRange(onValue, offValue) ==
    onValue > PCA9685_MAX_PWM_VALUE \/ offValue > PCA9685_MAX_PWM_VALUE

\* `base + (channel * 4U)` passed as the uint8_t register argument
ChannelReg(base, channel) == U8(base + channel * 4)

\* `(uint8_t) value`
LowByte(value) == U8(value)

\* Variant: the high byte is taken four bits too low.
HighByte_Shift4(value) == U8(Shr(value, 4))

\* `(uint8_t) (value >> 8U)`
HighByte(value) == U8(Shr(value, 8))

\* Variant: the two bytes are merged in the wrong order.
MergeBytes_Swapped(tmpValue_h, tmpValue_l) == U16(BitOr(Shl(tmpValue_l, 8), tmpValue_h))

\* `(uint16_t) ((tmpValue_h << 8U) | tmpValue_l)`
MergeBytes(tmpValue_h, tmpValue_l) == U16(BitOr(Shl(tmpValue_h, 8), tmpValue_l))

PCA9685_GetPWM(w, controllerConf, channel, onValue, offValue, fail) ==
    IF controllerConf = NULL \/ onValue = NULL \/ offValue = NULL
    THEN Return(w, PCA9685LIB_ERROR)
    ELSE IF ChannelOutOfRange(channel)
    THEN Return(w, PCA9685LIB_ERROR)
    ELSE
    LET w1 == PCA9685ReadReg(w, controllerConf,
                  ChannelReg(PCA9685_LED0_ON_L_REG_ADDR, channel), "tmpValue_l", fail)
    IN  IF w1.ret # PCA9685LIB_SUCCESS THEN Return(w1, PCA9685LIB_ERROR) ELSE
    LET w2 == PCA9685ReadReg(w1, controllerConf,
                  ChannelReg(PCA9685_LED0_ON_H_REG_ADDR, channel), "tmpValue_h", fail)
    IN  IF w2.ret # PCA9685LIB_SUCCESS THEN Return(w2, PCA9685LIB_ERROR) ELSE
    LET w3 == Store(w2, onValue, MergeBytes(w2.mem["tmpValue_h"], w2.mem["tmpValue_l"]))
        w4 == PCA9685ReadReg(w3, controllerConf,
                  ChannelReg(PCA9685_LED0_OFF_L_REG_ADDR, channel), "tmpValue_l", fail)
    IN  IF w4.ret # PCA9685LIB_SUCCESS THEN Return(w4, PCA9685LIB_ERROR) ELSE
    LET w5 == PCA9685ReadReg(w4, controllerConf,
                  ChannelReg(PCA9685_LED0_OFF_H_REG_ADDR, channel), "tmpValue_h", fail)
    IN  IF w5.ret # PCA9685LIB_SUCCESS THEN Return(w5, PCA9685LIB_ERROR) ELSE
    LET w6 == Store(w5, offValue, MergeBytes(w5.mem["tmpValue_h"], w5.mem["tmpValue_l"]))
    IN  Return(w6, PCA9685LIB_SUCCESS)

\* Variant: the result of the ON-high write is not checked.
PCA9685_SetPWM_IgnoresFailure(w, controllerConf, channel, onValue, offValue, fail) ==
    IF controllerConf = NULL
    THEN Return(w, PCA9685LIB_ERROR)
    ELSE IF ChannelOutOfRange(channel)
    THEN Return(w, PCA9685LIB_ERROR)
    ELSE IF PwmOutOfRange(onValue, offValue)
    THEN Return(w, PCA9685LIB_ERROR)
    ELSE
    LET w1 == PCA9685WriteReg(w, controllerConf,
                  ChannelReg(PCA9685_LED0_ON_L_REG_ADDR, channel), LowByte(onValue), fail)
    IN  IF w1.ret # PCA9685LIB_SUCCESS THEN Return(w1, PCA9685LIB_ERROR) ELSE
    LET w2 == PCA9685WriteReg(w1, controllerConf,
                  ChannelReg(PCA9685_LED0_ON_H_REG_ADDR, channel), HighByte(onValue), fail)
        w3 == PCA9685WriteReg(w2, controllerConf,
                  ChannelReg(PCA9685_LED0_OFF_L_REG_ADDR, channel), LowByte(offValue), fail)
    IN  IF w3.ret # PCA9685LIB_SUCCESS THEN Return(w3, PCA9685LIB_ERROR) ELSE
    LET w4 == PCA9685WriteReg(w3, controllerConf,
                  ChannelReg(PCA9685_LED0_OFF_H_REG_ADDR, channel), HighByte(offValue), fail)
    IN  IF w4.ret # PCA9685LIB_SUCCESS THEN Return(w4, PCA9685LIB_ERROR) ELSE
    Return(w4, PCA9685LIB_SUCCESS)

PCA9685_SetPWM(w, controllerConf, channel, onValue, offValue, fail) ==
    IF controllerConf = NULL
    THEN Return(w, PCA9685LIB_ERROR)
    ELSE IF ChannelOutOfRange(channel)
    THEN Return(w, PCA9685LIB_ERROR)
    ELSE IF PwmOutOfRange(onValue, offValue)
    THEN Return(w, PCA9685LIB_ERROR)
    ELSE
    LET w1 == PCA9685WriteReg(w, controllerConf,
                  ChannelReg(PCA9685_LED0_ON_L_REG_ADDR, channel), LowByte(onValue), fail)
    IN  IF w1.ret # PCA9685LIB_SUCCESS THEN Return(w1, PCA9685LIB_ERROR) ELSE
    LET w2 == PCA9685WriteReg(w1, controllerConf,
                  ChannelReg(PCA9685_LED0_ON_H_REG_ADDR, channel), HighByte(onValue), fail)
    IN  IF w2.ret # PCA9685LIB_SUCCESS THEN Return(w2, PCA9685LIB_ERROR) ELSE
    LET w3 == PCA9685WriteReg(w2, controllerConf,
                  ChannelReg(PCA9685_LED0_OFF_L_REG_ADDR, channel), LowByte(offValue), fail)
    IN  IF w3.ret # PCA9685LIB_SUCCESS THEN Return(w3, PCA9685LIB_ERROR) ELSE
    LET w4 == PCA9685WriteReg(w3, controllerConf,
                  ChannelReg(PCA9685_LED0_OFF_H_REG_ADDR, channel), HighByte(offValue), fail)
    IN  IF w4.ret # PCA9685LIB_SUCCESS THEN Return(w4, PCA9685LIB_ERROR) ELSE
    Return(w4, PCA9685LIB_SUCCESS)

\* Variant: both outputs are stored only after all four reads.
PCA9685_GetAllPWM_LateStore(w, controllerConf, onValue, offValue, fail) ==
    IF controllerConf = NULL \/ onValue = NULL \/ offValue = NULL
    THEN Return(w, PCA9685LIB_ERROR)
    ELSE
    LET w1 == PCA9685ReadReg(w, controllerConf,
                  PCA9685_ALL_LED_ON_L_REG_ADDR, "tmpValue_l", fail)
    IN  IF w1.ret # PCA9685LIB_SUCCESS THEN Return(w1, PCA9685LIB_ERROR) ELSE
    LET w2 == PCA9685ReadReg(w1, controllerConf,
                  PCA9685_ALL_LED_ON_H_REG_ADDR, "tmpValue_h", fail)
    IN  IF w2.ret # PCA9685LIB_SUCCESS THEN Return(w2, PCA9685LIB_ERROR) ELSE
    LET on == MergeBytes(w2.mem["tmpValue_h"], w2.mem["tmpValue_l"])
        w4 == PCA9685ReadReg(w2, controllerConf,
                  PCA9685_ALL_LED_OFF_L_REG_ADDR, "tmpValue_l", fail)
    IN  IF w4.ret # PCA9685LIB_SUCCESS THEN Return(w4, PCA9685LIB_ERROR) ELSE
    LET w5 == PCA9685ReadReg(w4, controllerConf,
                  PCA9685_ALL_LED_OFF_H_REG_ADDR, "tmpValue_h", fail)
    IN  IF w5.ret # PCA9685LIB_SUCCESS THEN Return(w5, PCA9685LIB_ERROR) ELSE
    LET w6 == Store(Store(w5, onValue, on), offValue,
                    MergeBytes(w5.mem["tmpValue_h"], w5.mem["tmpValue_l"]))
    IN  Return(w6, PCA9685LIB_SUCCESS)

PCA9685_GetAllPWM(w, controllerConf, onValue, offValue, fail) ==
    IF controllerConf = NULL \/ onValue = NULL \/ offValue = NULL
    THEN Return(w, PCA9685LIB_ERROR)
    ELSE
    LET w1 == PCA9685ReadReg(w, controllerConf,
                  PCA9685_ALL_LED_ON_L_REG_ADDR, "tmpValue_l", fail)
    IN  IF w1.ret # PCA9685LIB_SUCCESS THEN Return(w1, PCA9685LIB_ERROR) ELSE
    LET w2 == PCA9685ReadReg(w1, controllerConf,
                  PCA9685_ALL_LED_ON_H_REG_ADDR, "tmpValue_h", fail)
    IN  IF w2.ret # PCA9685LIB_SUCCESS THEN Return(w2, PCA9685LIB_ERROR) ELSE
    LET w3 == Store(w2, onValue, MergeBytes(w2.mem["tmpValue_h"], w2.mem["tmpValue_l"]))
        w4 == PCA9685ReadReg(w3, controllerConf,
                  PCA9685_ALL_LED_OFF_L_REG_ADDR, "tmpValue_l", fail)
    IN  IF w4.ret # PCA9685LIB_SUCCESS THEN Return(w4, PCA9685LIB_ERROR) ELSE
    LET w5 == PCA9685ReadReg(w4, controllerConf,
                  PCA9685_ALL_LED_OFF_H_REG_ADDR, "tmpValue_h", fail)
    IN  IF w5.ret # PCA9685LIB_SUCCESS THEN Return(w5, PCA9685LIB_ERROR) ELSE
    LET w6 == Store(w5, offValue, MergeBytes(w5.mem["tmpValue_h"], w5.mem["tmpValue_l"]))
    IN  Return(w6, PCA9685LIB_SUCCESS)

PCA9685_SetAllPWM(w, controllerConf, onValue, offValue, fail) ==
    IF controllerConf = NULL
    THEN Return(w, PCA9685LIB_ERROR)
    ELSE IF PwmOutOfRange(onValue, offValue)
    THEN Return(w, PCA9685LIB_ERROR)
    ELSE
    LET w1 == PCA9685WriteReg(w, controllerConf,
                  PCA9685_ALL_LED_ON_L_REG_ADDR, LowByte(onValue), fail)
    IN  IF w1.ret # PCA9685LIB_SUCCESS THEN Return(w1, PCA9685LIB_ERROR) ELSE
    LET w2 == PCA9685WriteReg(w1, controllerConf,
                  PCA9685_ALL_LED_ON_H_REG_ADDR, HighByte(onValue), fail)
    IN  IF w2.ret # PCA9685LIB_SUCCESS THEN Return(w2, PCA9685LIB_ERROR) ELSE
    LET w3 == PCA9685WriteReg(w2, controllerConf,
                  PCA9685_ALL_LED_OFF_L_REG_ADDR, LowByte(offValue), fail)
    IN  IF w3.ret # PCA9685LIB_SUCCESS THEN Return(w3, PCA9685LIB_ERROR) ELSE
    LET w4 == PCA9685WriteReg(w3, controllerConf,
                  PCA9685_ALL_LED_OFF_H_REG_ADDR, HighByte(offValue), fail)
    IN  IF w4.ret # PCA9685LIB_SUCCESS THEN Return(w4, PCA9685LIB_ERROR) ELSE
    Return(w4, PCA9685LIB_SUCCESS)

(***************************************************************************)
(* Device operation layer: single-field read-modify-write operations       *)
(***************************************************************************)
\* `mode1RegRead.bitfield.restart = v;`
Mode1SetRestart(regValue, v) ==
    SetBitfield(regValue, MODE1_RESTART_SHIFT, MODE1_RESTART_WIDTH, v)

\* Variant: the whole register value is overwritten with the sleep mask.
Mode1SetSleep_Clobber(regValue, v) == Shl(v % Pow2(MODE1_SLEEP_WIDTH), MODE1_SLEEP_SHIFT)

\* `mode1RegRead.bitfield.sleep = v;`
Mode1SetSleep(regValue, v) ==
    SetBitfield(regValue, MODE1_SLEEP_SHIFT, MODE1_SLEEP_WIDTH, v)

\* `mode2RegRead.bitfield.outne = v;`
Mode2SetOutne(regValue, v) ==
    SetBitfield(regValue, MODE2_OUTNE_SHIFT, MODE2_OUTNE_WIDTH, v)

\* `mode2RegRead.bitfield.invrt = v;`
Mode2SetInvrt(regValue, v) ==
    SetBitfield(regValue, MODE2_INVRT_SHIFT, MODE2_INVRT_WIDTH, v)

PCA9685_Reset(w, controllerConf, fail) ==
    IF controllerConf = NULL
    THEN Return(w, PCA9685LIB_ERROR)
    ELSE
    LET w1 == PCA9685ReadReg(w, controllerConf, PCA9685_MODE1_REG_ADDR, "mode1RegRead", fail)
    IN  IF w1.ret # PCA9685LIB_SUCCESS THEN Return(w1, PCA9685LIB_ERROR) ELSE
    LET w2 == [w1 EXCEPT !.mem["mode1RegRead"] = Mode1SetRestart(@, 1)]
        w3 == PCA9685WriteReg(w2, controllerConf, PCA9685_MODE1_REG_ADDR,
                              w2.mem["mode1RegRead"], fail)
    IN  IF w3.ret # PCA9685LIB_SUCCESS THEN Return(w3, PCA9685LIB_ERROR) ELSE
    Return(w3, PCA9685LIB_SUCCESS)

PCA9685_Sleep(w, controllerConf, fail) ==
    IF controllerConf = NULL
    THEN Return(w, PCA9685LIB_ERROR)
    ELSE
    LET w1 == PCA9685ReadReg(w, controllerConf, PCA9685_MODE1_REG_ADDR, "mode1RegRead", fail)
    IN  IF w1.ret # PCA9685LIB_SUCCESS THEN Return(w1, PCA9685LIB_ERROR) ELSE
    LET w2 == [w1 EXCEPT !.mem["mode1RegRead"] = Mode1SetSleep(@, 1)]
        w3 == PCA9685WriteReg(w2, controllerConf, PCA9685_MODE1_REG_ADDR,
                              w2.mem["mode1RegRead"], fail)
    IN  IF w3.ret # PCA9685LIB_SUCCESS THEN Return(w3, PCA9685LIB_ERROR) ELSE
    Return(w3, PCA9685LIB_SUCCESS)

PCA9685_WakeUp(w, controllerConf, fail) ==
    IF controllerConf = NULL
    THEN Return(w, PCA9685LIB_ERROR)
    ELSE
    LET w1 == PCA9685ReadReg(w, controllerConf, PCA9685_MODE1_REG_ADDR, "mode1RegRead", fail)
    IN  IF w1.ret # PCA9685LIB_SUCCESS THEN Return(w1, PCA9685LIB_ERROR) ELSE
    LET w2 == [w1 EXCEPT !.mem["mode1RegRead"] = Mode1SetSleep(@, 0)]
        w3 == PCA9685WriteReg(w2, controllerConf, PCA9685_MODE1_REG_ADDR,
                              w2.mem["mode1RegRead"], fail)
    IN  IF w3.ret # PCA9685LIB_SUCCESS THEN Return(w3, PCA9685LIB_ERROR) ELSE
    Return(w3, PCA9685LIB_SUCCESS)

\* The three Mode2 operations write the modified Mode2 byte to
\* PCA9685_MODE1_REG_ADDR (lines 543, 571 and 599 of the source).
PCA9685_EnableOutput(w, controllerConf, fail) ==
    IF controllerConf = NULL
    THEN Return(w, PCA9685LIB_ERROR)
    ELSE
    LET w1 == PCA9685ReadReg(w, controllerConf, PCA9685_MODE2_REG_ADDR, "mode2RegRead", fail)
    IN  IF w1.ret # PCA9685LIB_SUCCESS THEN Return(w1, PCA9685LIB_ERROR) ELSE
    LET w2 == [w1 EXCEPT !.mem["mode2RegRead"] = Mode2SetOutne(@, 0)]
        w3 == PCA9685WriteReg(w2, controllerConf, PCA9685_MODE1_REG_ADDR,
                              w2.mem["mode2RegRead"], fail)
    IN  IF w3.ret # PCA9685LIB_SUCCESS THEN Return(w3, PCA9685LIB_ERROR) ELSE
    Return(w3, PCA9685LIB_SUCCESS)

PCA9685_DisableOutput(w, controllerConf, fail) ==
    IF controllerConf = NULL
    THEN Return(w, PCA9685LIB_ERROR)
    ELSE
    LET w1 == PCA9685ReadReg(w, controllerConf, PCA9685_MODE2_REG_ADDR, "mode2RegRead", fail)
    IN  IF w1.ret # PCA9685LIB_SUCCESS THEN Return(w1, PCA9685LIB_ERROR) ELSE
    LET w2 == [w1 EXCEPT !.mem["mode2RegRead"] = Mode2SetOutne(@, 3)]
        w3 == PCA9685WriteReg(w2, controllerConf, PCA9685_MODE1_REG_ADDR,
                              w2.mem["mode2RegRead"], fail)
    IN  IF w3.ret # PCA9685LIB_SUCCESS THEN Return(w3, PCA9685LIB_ERROR) ELSE
    Return(w3, PCA9685LIB_SUCCESS)

PCA9685_SetOutputInversion(w, controllerConf, invrt, fail) ==
    IF controllerConf = NULL
    THEN Return(w, PCA9685LIB_ERROR)
    ELSE
    LET w1 == PCA9685ReadReg(w, controllerConf, PCA9685_MODE2_REG_ADDR, "mode2RegRead", fail)
    IN  IF w1.ret # PCA9685LIB_SUCCESS THEN Return(w1, PCA9685LIB_ERROR) ELSE
    LET w2 == [w1 EXCEPT !.mem["mode2RegRead"] = Mode2SetInvrt(@, invrt)]
        w3 == PCA9685WriteReg(w2, controllerConf, PCA9685_MODE1_REG_ADDR,
                              w2.mem["mode2RegRead"], fail)
    IN  IF w3.ret # PCA9685LIB_SUCCESS THEN Return(w3, PCA9685LIB_ERROR) ELSE
    Return(w3, PCA9685LIB_SUCCESS)

(***************************************************************************)
(* State machine: a caller issuing driver calls one after the other        *)
(***************************************************************************)
\* Register contents the device may hold when the handle is initialised: the
\* chip's power-on values, or values left by earlier use.
PowerOnRegs ==
    [r \in RegAddr |->
        IF r = PCA9685_MODE1_REG_ADDR THEN 17
        ELSE IF r = PCA9685_MODE2_REG_ADDR THEN 4
        ELSE IF r = PCA9685_PRE_SCALE_REG_ADDR THEN 30
        ELSE 0]

UsedRegs == [r \in RegAddr |-> (r * 37 + 11) % 256]

\* The handle has been initialised by PCA9685_Init; no driver call made yet.
Init ==
    /\ regs \in {PowerOnRegs, UsedRegs}
    /\ mem = [a \in CallerVars |-> IF a = "data" THEN 205 ELSE 43981]
    /\ stores = {}
    /\ busLog = <<>>
    /\ ret = PCA9685LIB_SUCCESS
    /\ call = [name |-> "PCA9685_Init"]
    /\ nCalls = 0

\* The caller observes the result of the call w: return value, device
\* registers, transport log and its own memory; the callee's locals are gone.
Apply(w, c) ==
    /\ nCalls < MaxOps
    /\ regs' = w.regs
    /\ mem' = [a \in CallerVars |-> w.mem[a]]
    /\ stores' = w.stores \cap CallerVars
    /\ busLog' = w.log
    /\ ret' = w.ret
    /\ call' = c
    /\ nCalls' = nCalls + 1

\* Argument tuples: every valid combination with every failure point, and each
\* way of being invalid once.
WriteRegArgs ==
    ({"controllerConf"} \X RegInputs \X ByteInputs \X FailPoints(1))
    \cup {<<NULL, 0, 90, 0>>}

ReadRegArgs ==
    ({"controllerConf"} \X RegInputs \X {"data"} \X FailPoints(1))
    \cup {<<NULL, 0, "data", 0>>, <<"controllerConf", 0, NULL, 0>>}

GetByteArgs ==
    ({"controllerConf"} \X {"data"} \X FailPoints(1))
    \cup {<<NULL, "data", 0>>, <<"controllerConf", NULL, 0>>}

SetByteArgs(values) ==
    ({"controllerConf"} \X values \X FailPoints(1))
    \cup {<<NULL, 90, 0>>}

GetPWMArgs ==
    ({"controllerConf"} \X ValidChannels \X {"onValue"} \X {"offValue"} \X FailPoints(4))
    \cup ({"controllerConf"} \X InvalidChannels \X {"onValue"} \X {"offValue"} \X {0})
    \cup {<<NULL, 0, "onValue", "offValue", 0>>,
          <<"controllerConf", 0, NULL, "offValue", 0>>,
          <<"controllerConf", 0, "onValue", NULL, 0>>}

SetPWMArgs ==
    ({"controllerConf"} \X ValidChannels \X ValidPwm \X FailPoints(4))
    \cup ({"controllerConf"} \X InvalidChannels \X (ValidPwm \cup InvalidPwm) \X {0})
    \cup ({"controllerConf"} \X ValidChannels \X InvalidPwm \X {0})
    \cup {<<NULL, 0, <<0, 2048>>, 0>>}

GetAllPWMArgs ==
    ({"controllerConf"} \X {"onValue"} \X {"offValue"} \X FailPoints(4))
    \cup {<<NULL, "onValue", "offValue", 0>>,
          <<"controllerConf", NULL, "offValue", 0>>,
          <<"controllerConf", "onValue", NULL, 0>>}

SetAllPWMArgs ==
    ({"controllerConf"} \X ValidPwm \X FailPoints(4))
    \cup ({"controllerConf"} \X InvalidPwm \X {0})
    \cup {<<NULL, <<0, 2048>>, 0>>}

RmwArgs ==
    ({"controllerConf"} \X FailPoints(2)) \cup {<<NULL, 0>>}

SetOutputInversionArgs ==
    ({"controllerConf"} \X InvrtInputs \X FailPoints(2)) \cup {<<NULL, 1, 0>>}

WriteReg ==
    \E a \in WriteRegArgs :
        Apply(PCA9685WriteReg(World(regs, mem), a[1], a[2], a[3], a[4]),
              [name |-> "PCA9685WriteReg", conf |-> a[1], reg |-> a[2], data |-> a[3]])

ReadReg ==
    \E a \in ReadRegArgs :
        Apply(PCA9685ReadReg(World(regs, mem), a[1], a[2], a[3], a[4]),
              [name |-> "PCA9685ReadReg", conf |-> a[1], reg |-> a[2], data |-> a[3]])

GetMode1Reg ==
    \E a \in GetByteArgs :
        Apply(PCA9685_GetMode1Reg(World(regs, mem), a[1], a[2], a[3]),
              [name |-> "PCA9685_GetMode1Reg", conf |-> a[1], modeReg |-> a[2]])

SetMode1Reg ==
    \E a \in SetByteArgs(ByteInputs) :
        Apply(PCA9685_SetMode1Reg(World(regs, mem), a[1], a[2], a[3]),
              [name |-> "PCA9685_SetMode1Reg", conf |-> a[1], modeReg |-> a[2]])

GetMode2Reg ==
    \E a \in GetByteArgs :
        Apply(PCA9685_GetMode2Reg(World(regs, mem), a[1], a[2], a[3]),
              [name |-> "PCA9685_GetMode2Reg", conf |-> a[1], modeReg |-> a[2]])

SetMode2Reg ==
    \E a \in SetByteArgs(ByteInputs) :
        Apply(PCA9685_SetMode2Reg(World(regs, mem), a[1], a[2], a[3]),
              [name |-> "PCA9685_SetMode2Reg", conf |-> a[1], modeReg |-> a[2]])

GetPrescaler ==
    \E a \in GetByteArgs :
        Apply(PCA9685_GetPrescaler(World(regs, mem), a[1], a[2], a[3]),
              [name |-> "PCA9685_GetPrescaler", conf |-> a[1], prescale |-> a[2]])

SetPrescaler ==
    \E a \in SetByteArgs(PrescaleInputs) :
        Apply(PCA9685_SetPrescaler(World(regs, mem), a[1], a[2], a[3]),
              [name |-> "PCA9685_SetPrescaler", conf |-> a[1], prescale |-> a[2]])

GetPWM ==
    \E a \in GetPWMArgs :
        Apply(PCA9685_GetPWM(World(regs, mem), a[1], a[2], a[3], a[4], a[5]),
              [name |-> "PCA9685_GetPWM", conf |-> a[1], channel |-> a[2],
               onValue |-> a[3], offValue |-> a[4]])

SetPWM ==
    \E a \in SetPWMArgs :
        Apply(PCA9685_SetPWM(World(regs, mem), a[1], a[2], a[3][1], a[3][2], a[4]),
              [name |-> "PCA9685_SetPWM", conf |-> a[1], channel |-> a[2],
               onValue |-> a[3][1], offValue |-> a[3][2]])

GetAllPWM ==
    \E a \in GetAllPWMArgs :
        Apply(PCA9685_GetAllPWM(World(regs, mem), a[1], a[2], a[3], a[4]),
              [name |-> "PCA9685_GetAllPWM", conf |-> a[1],
               onValue |-> a[2], offValue |-> a[3]])

SetAllPWM ==
    \E a \in SetAllPWMArgs :
        Apply(PCA9685_SetAllPWM(World(regs, mem), a[1], a[2][1], a[2][2], a[3]),
              [name |-> "PCA9685_SetAllPWM", conf |-> a[1],
               onValue |-> a[2][1], offValue |-> a[2][2]])

Reset ==
    \E a \in RmwArgs :
        Apply(PCA9685_Reset(World(regs, mem), a[1], a[2]),
              [name |-> "PCA9685_Reset", conf |-> a[1]])

Sleep ==
    \E a \in RmwArgs :
        Apply(PCA9685_Sleep(World(regs, mem), a[1], a[2]),
              [name |-> "PCA9685_Sleep", conf |-> a[1]])

WakeUp ==
    \E a \in RmwArgs :
        Apply(PCA9685_WakeUp(World(regs, mem), a[1], a[2]),
              [name |-> "PCA9685_WakeUp", conf |-> a[1]])

EnableOutput ==
    \E a \in RmwArgs :
        Apply(PCA9685_EnableOutput(World(regs, mem), a[1], a[2]),
              [name |-> "PCA9685_EnableOutput", conf |-> a[1]])

DisableOutput ==
    \E a \in RmwArgs :
        Apply(PCA9685_DisableOutput(World(regs, mem), a[1], a[2]),
              [name |-> "PCA9685_DisableOutput", conf |-> a[1]])

SetOutputInversion ==
    \E a \in SetOutputInversionArgs :
        Apply(PCA9685_SetOutputInversion(World(regs, mem), a[1], a[2], a[3]),
              [name |-> "PCA9685_SetOutputInversion", conf |-> a[1], invrt |-> a[2]])

Next ==
    \/ WriteReg
    \/ ReadReg
    \/ GetMode1Reg
    \/ SetMode1Reg
    \/ GetMode2Reg
    \/ SetMode2Reg
    \/ GetPrescaler
    \/ SetPrescaler
    \/ GetPWM
    \/ SetPWM
    \/ GetAllPWM
    \/ SetAllPWM
    \/ Reset
    \/ Sleep
    \/ WakeUp
    \/ EnableOutput
    \/ DisableOutput
    \/ SetOutputInversion

Spec == Init /\ [][Next]_vars

(***************************************************************************)
(* Vocabulary of the properties                                            *)
(***************************************************************************)
Bit(b, i) == (b \div (2 ^ i)) % 2

\* The last driver call was given a usable handle.
HandleGiven == call.conf # NULL

\* No transport call of the last driver call failed.
BusClean == \A i \in 1..Len(busLog) : busLog[i].ok

\* The registers of the forbidden region, as the register map states them.
ForbiddenAddrs ==
    {r \in RegAddr :
        \/ (PCA9685_LED15_OFF_H_REG_ADDR < r /\ r < PCA9685_ALL_LED_ON_L_REG_ADDR)
        \/ r = PCA9685_TEST_MODE_REG_ADDR}

\* The four registers of the group a PWM call addresses, in ON-low, ON-high,
\* OFF-low, OFF-high order, and the four bytes of an (on, off) pair.
GroupBase(c) ==
    IF c.name \in {"PCA9685_SetAllPWM", "PCA9685_GetAllPWM"}
    THEN PCA9685_ALL_LED_ON_L_REG_ADDR
    ELSE PCA9685_LED0_ON_L_REG_ADDR + 4 * c.channel

GroupReg(c, j) == GroupBase(c) + (j - 1)

PairBytes(on, off) == <<on % 256, on \div 256, off % 256, off \div 256>>

(***************************************************************************)
(* C1: no forbidden register address (strictly between LED15 OFF-high and  *)
(* ALL-LED ON-low, or the test-mode address) is ever handed to the bus     *)
(* transport, and PCA9685ReadReg / PCA9685WriteReg on such an address      *)
(* return the error result without any transport call, whatever the byte.  *)
(***************************************************************************)
C1_ForbiddenNeverOnBus ==
    /\ \A i \in 1..Len(busLog) : busLog[i].reg \notin ForbiddenAddrs
    /\ (/\ call.name \in {"PCA9685ReadReg", "PCA9685WriteReg"}
        /\ call.reg \in ForbiddenAddrs)
       => (ret = PCA9685LIB_ERROR /\ busLog = <<>>)

C1_Witness ==
    /\ call.name = "PCA9685ReadReg"
    /\ call.reg = PCA9685_TEST_MODE_REG_ADDR
    /\ HandleGiven
    /\ call.data # NULL
    /\ ret = PCA9685LIB_ERROR
    /\ busLog = <<>>

(***************************************************************************)
(* C2: a successful EnableOutput, DisableOutput or SetOutputInversion      *)
(* leaves Mode2 equal to its pre-call value with only the outne field      *)
(* (0, resp. 3) or only the invrt field (the caller's value) changed, and  *)
(* leaves Mode1 and every other register unchanged.                        *)
(***************************************************************************)
C2_Mode2After(c, m2) ==
    IF c.name = "PCA9685_EnableOutput"
    THEN SetBitfield(m2, MODE2_OUTNE_SHIFT, MODE2_OUTNE_WIDTH, 0)
    ELSE IF c.name = "PCA9685_DisableOutput"
    THEN SetBitfield(m2, MODE2_OUTNE_SHIFT, MODE2_OUTNE_WIDTH, 3)
    ELSE SetBitfield(m2, MODE2_INVRT_SHIFT, MODE2_INVRT_WIDTH, c.invrt)

C2_Mode2WrittenBackToMode2 ==
    [][(/\ call'.name \in {"PCA9685_EnableOutput", "PCA9685_DisableOutput",
                           "PCA9685_SetOutputInversion"}
        /\ ret' = PCA9685LIB_SUCCESS)
       => regs' = [regs EXCEPT ![PCA9685_MODE2_REG_ADDR] = C2_Mode2After(call', @)]]_vars

(***************************************************************************)
(* C3: round trip.  A successful SetPWM(c, on, off) immediately followed   *)
(* by GetPWM(c) on a transport that does not fail succeeds and hands back  *)
(* exactly (on, off).                                                      *)
(***************************************************************************)
C3_SetGetRoundTrip ==
    [][(/\ call.name = "PCA9685_SetPWM"
        /\ ret = PCA9685LIB_SUCCESS
        /\ call'.name = "PCA9685_GetPWM"
        /\ call'.channel = call.channel
        /\ call'.conf # NULL /\ call'.onValue # NULL /\ call'.offValue # NULL
        /\ \A i \in 1..Len(busLog') : busLog'[i].ok)
       => (/\ ret' = PCA9685LIB_SUCCESS
           /\ mem'["onValue"] = call.onValue
           /\ mem'["offValue"] = call.offValue)]_vars

C3_Witness ==
    /\ call.name = "PCA9685_GetPWM"
    /\ call.channel = 15
    /\ ret = PCA9685LIB_SUCCESS
    /\ nCalls = 2
    /\ mem["onValue"] = 2748
    /\ mem["offValue"] = 1365

(***************************************************************************)
(* C4: SetPWM and GetPWM with a channel index above 15 return the error    *)
(* result and make no transport call, whatever the on/off values.          *)
(***************************************************************************)
C4_BadChannelRejected ==
    (/\ call.name \in {"PCA9685_SetPWM", "PCA9685_GetPWM"}
     /\ call.channel > 15)
    => (ret = PCA9685LIB_ERROR /\ busLog = <<>>)

C4_Witness ==
    /\ call.name = "PCA9685_GetPWM"
    /\ call.channel = 255
    /\ HandleGiven
    /\ call.onValue # NULL /\ call.offValue # NULL
    /\ ret = PCA9685LIB_ERROR
    /\ busLog = <<>>

(***************************************************************************)
(* C5: SetPWM (valid channel) and SetAllPWM with an on value or an off     *)
(* value above 4095 return the error result before any transport call, and *)
(* no device register changes.                                             *)
(***************************************************************************)
C5_BadPwmRejected ==
    [][(/\ call'.name \in {"PCA9685_SetPWM", "PCA9685_SetAllPWM"}
        /\ (call'.onValue > 4095 \/ call'.offValue > 4095))
       => (/\ ret' = PCA9685LIB_ERROR
           /\ busLog' = <<>>
           /\ regs' = regs)]_vars

C5_Witness ==
    /\ call.name = "PCA9685_SetPWM"
    /\ call.channel = 0
    /\ call.onValue = 0
    /\ call.offValue = 4096
    /\ HandleGiven
    /\ ret = PCA9685LIB_ERROR
    /\ busLog = <<>>

(***************************************************************************)
(* C6: SetPrescaler(p) on a working transport succeeds and leaves          *)
(* max(p, 3) in the prescaler register; repeating the call with the same p *)
(* leaves the stored byte as it was.                                       *)
(***************************************************************************)
C6_Stored(p) == IF p < 3 THEN 3 ELSE p

C6_PrescalerClamped ==
    /\ [](( /\ call.name = "PCA9685_SetPrescaler"
            /\ HandleGiven
            /\ BusClean)
          => (/\ ret = PCA9685LIB_SUCCESS
              /\ regs[PCA9685_PRE_SCALE_REG_ADDR] = C6_Stored(call.prescale)))
    /\ [][(/\ call.name = "PCA9685_SetPrescaler"
           /\ ret = PCA9685LIB_SUCCESS
           /\ call'.name = "PCA9685_SetPrescaler"
           /\ call'.prescale = call.prescale
           /\ ret' = PCA9685LIB_SUCCESS)
          => regs'[PCA9685_PRE_SCALE_REG_ADDR] = regs[PCA9685_PRE_SCALE_REG_ADDR]]_vars

C6_Witness ==
    /\ call.name = "PCA9685_SetPrescaler"
    /\ call.prescale = 2
    /\ ret = PCA9685LIB_SUCCESS
    /\ regs[PCA9685_PRE_SCALE_REG_ADDR] = 3

(***************************************************************************)
(* C7: a successful Sleep sets the sleep bit of Mode1, a successful WakeUp *)
(* clears it, a successful Reset sets the restart bit; every other bit of  *)
(* Mode1 and every other register keeps its pre-call value.                *)
(***************************************************************************)
C7_OnlyBit(before, after, bit, v) ==
    /\ Bit(after[PCA9685_MODE1_REG_ADDR], bit) = v
    /\ \A i \in (0..7) \ {bit} :
           Bit(after[PCA9685_MODE1_REG_ADDR], i) = Bit(before[PCA9685_MODE1_REG_ADDR], i)
    /\ after[PCA9685_MODE1_REG_ADDR] \in Byte
    /\ \A r \in RegAddr \ {PCA9685_MODE1_REG_ADDR} : after[r] = before[r]

C7_Mode1SingleBit ==
    [][/\ (call'.name = "PCA9685_Sleep" /\ ret' = PCA9685LIB_SUCCESS)
          => C7_OnlyBit(regs, regs', MODE1_SLEEP_SHIFT, 1)
       /\ (call'.name = "PCA9685_WakeUp" /\ ret' = PCA9685LIB_SUCCESS)
          => C7_OnlyBit(regs, regs', MODE1_SLEEP_SHIFT, 0)
       /\ (call'.name = "PCA9685_Reset" /\ ret' = PCA9685LIB_SUCCESS)
          => C7_OnlyBit(regs, regs', MODE1_RESTART_SHIFT, 1)]_vars

C7_Witness ==
    /\ call.name = "PCA9685_WakeUp"
    /\ ret = PCA9685LIB_SUCCESS
    /\ nCalls = 2
    /\ regs[PCA9685_MODE1_REG_ADDR] = 239

(***************************************************************************)
(* C8: no rollback and no retry.  When the transport fails on the k-th of  *)
(* the four register writes of SetPWM or SetAllPWM, the call returns the   *)
(* error result, the k-1 earlier writes stay applied, the failed write is  *)
(* not repeated and no later write is issued; every register the k-1       *)
(* writes did not reach keeps its pre-call value.                          *)
(***************************************************************************)
\* The registers `before` with the first n bytes of the call's pair written to
\* the first n registers of its group.
RECURSIVE C8_AfterFirst(_, _, _)
C8_AfterFirst(before, c, n) ==
    IF n = 0
    THEN before
    ELSE [C8_AfterFirst(before, c, n - 1)
            EXCEPT ![GroupReg(c, n)] = PairBytes(c.onValue, c.offValue)[n]]

C8_NoRollbackNoRetry ==
    [][call'.name \in {"PCA9685_SetPWM", "PCA9685_SetAllPWM"}
       => \A k \in 1..Len(busLog') :
            ~busLog'[k].ok
            => (/\ ret' = PCA9685LIB_ERROR
                /\ k <= 4
                /\ Len(busLog') = k
                /\ \A j \in 1..k :
                       /\ busLog'[j].op = "write"
                       /\ busLog'[j].reg = GroupReg(call', j)
                       /\ busLog'[j].ok = (j < k)
                /\ regs' = C8_AfterFirst(regs, call', k - 1))]_vars

C8_Witness ==
    /\ call.name = "PCA9685_SetPWM"
    /\ call.channel = 0
    /\ call.onValue = 2748
    /\ ret = PCA9685LIB_ERROR
    /\ Len(busLog) = 2
    /\ ~busLog[2].ok
    /\ regs[PCA9685_LED0_ON_L_REG_ADDR] = 188
    /\ regs[PCA9685_LED0_ON_H_REG_ADDR] # 10

(***************************************************************************)
(* C9: a successful SetPWM(c, on, off) makes exactly four transport calls, *)
(* all writes, to LED0 base + 4*c + 0..3 in ON-low, ON-high, OFF-low,      *)
(* OFF-high order, carrying on mod 256, on div 256, off mod 256 and        *)
(* off div 256; SetAllPWM does the same on the ALL-LED group and a         *)
(* GetAllPWM that follows hands back (on, off); no register outside the    *)
(* addressed group changes.                                                *)
(***************************************************************************)
C9_FourWrites(c) ==
    [j \in 1..4 |->
        [op |-> "write", reg |-> GroupReg(c, j),
         data |-> PairBytes(c.onValue, c.offValue)[j], ok |-> TRUE]]

C9_FourOrderedWrites ==
    [][/\ (/\ call'.name \in {"PCA9685_SetPWM", "PCA9685_SetAllPWM"}
           /\ ret' = PCA9685LIB_SUCCESS)
          => (/\ busLog' = C9_FourWrites(call')
              /\ regs' = C8_AfterFirst(regs, call', 4))
       /\ (/\ call'.name = "PCA9685_SetPWM"
           /\ ret' = PCA9685LIB_SUCCESS
           /\ call'.channel = 0 /\ call'.onValue = 0 /\ call'.offValue = 2048)
          => (/\ [j \in 1..4 |-> busLog'[j].reg] = <<6, 7, 8, 9>>
              /\ [j \in 1..4 |-> busLog'[j].data] = <<0, 0, 0, 8>>)
       /\ (/\ call'.name = "PCA9685_SetAllPWM"
           /\ ret' = PCA9685LIB_SUCCESS
           /\ call'.onValue = 4095 /\ call'.offValue = 0)
          => (/\ [j \in 1..4 |-> busLog'[j].reg] = <<250, 251, 252, 253>>
              /\ [j \in 1..4 |-> busLog'[j].data] = <<255, 15, 0, 0>>)
       /\ (/\ call.name = "PCA9685_SetAllPWM"
           /\ ret = PCA9685LIB_SUCCESS
           /\ call'.name = "PCA9685_GetAllPWM"
           /\ call'.conf # NULL /\ call'.onValue # NULL /\ call'.offValue # NULL
           /\ \A i \in 1..Len(busLog') : busLog'[i].ok)
          => (/\ ret' = PCA9685LIB_SUCCESS
              /\ mem'["onValue"] = call.onValue
              /\ mem'["offValue"] = call.offValue)]_vars

C9_Witness ==
    /\ call.name = "PCA9685_GetAllPWM"
    /\ ret = PCA9685LIB_SUCCESS
    /\ nCalls = 2
    /\ mem["onValue"] = 4095
    /\ mem["offValue"] = 0
    /\ regs[PCA9685_ALL_LED_ON_H_REG_ADDR] = 15

(***************************************************************************)
(* C10: when GetPWM or GetAllPWM returns the error result, the caller's    *)
(* off-value output is never written; the on-value output is written       *)
(* exactly when the first two reads succeeded and the third or fourth      *)
(* failed; after a rejected argument or a failed first or second read      *)
(* neither output is written and no further read is issued.                *)
(***************************************************************************)
C10_OutputsOnFailedRead ==
    [][(/\ call'.name \in {"PCA9685_GetPWM", "PCA9685_GetAllPWM"}
        /\ ret' = PCA9685LIB_ERROR)
       => LET n == Len(busLog')
              late == /\ n \in {3, 4}
                      /\ \A i \in 1..(n - 1) : busLog'[i].ok
                      /\ ~busLog'[n].ok
          IN  /\ "offValue" \notin stores'
              /\ mem'["offValue"] = mem["offValue"]
              /\ ("onValue" \in stores') <=> late
              /\ ~late => (/\ mem'["onValue"] = mem["onValue"]
                           /\ n <= 2
                           /\ \A i \in 1..n : busLog'[i].op = "read"
                           /\ \A i \in 1..n : busLog'[i].ok = (i < n))]_vars

C10_Witness ==
    /\ call.name = "PCA9685_GetPWM"
    /\ call.channel = 0
    /\ ret = PCA9685LIB_ERROR
    /\ Len(busLog) = 3
    /\ ~busLog[3].ok
    /\ "onValue" \in stores
    /\ "offValue" \notin stores

====
